---------------------------- MODULE Spec2Model ----------------------------
(***************************************************************************)
(* Polar H10 -> LSL streamer: the notification decoders (pmd_data_conv,    *)
(* hrm_conv), the channel state they share (last_hr, last_rri, last_acc,   *)
(* last_ecg) and the vector assembler (push) of BluetoothApp.              *)
(*                                                                         *)
(* Values.  Bytes are 0..255.  ECG, HR and ACC values are integers.  The   *)
(* RR interval is raw/1024.0*1000 ms = raw*125/128 ms, exact in a double;  *)
(* it is kept here as the integer raw*125, in units of 1/128 ms.  No value *)
(* of the program is ever NaN (the constant NaN of line 54 is unused), so  *)
(* the math.isnan tests of push are always false.                          *)
(*                                                                         *)
(* Scheduling.  Both handlers are plain callbacks run by the event loop of *)
(* the connect thread, so each runs to completion before the next starts:  *)
(* one action per handler run.                                             *)
(*                                                                         *)
(* Two specifications.  Spec is the decoders under every sequence of       *)
(* notifications and of new sessions, over the full set of payloads; the   *)
(* session variables keep their initial values in it.  SessionSpec is the  *)
(* session: connect_to_device and its thread, the steps of async_connect,  *)
(* stop_scanning on the GUI thread, the end of the thread and of the       *)
(* interpreter, with the handlers fed from a few well-formed payloads.     *)
(* In SessionSpec every await of async_connect but the disconnect of       *)
(* BleakClient.__aexit__ may fail, and a new session starts only when the  *)
(* thread of the one before has ended.                                     *)
(***************************************************************************)
EXTENDS Integers, Sequences, FiniteSets, TLC

VARIABLES
    has_outlet,     \* self.outlet exists: connect_to_device has run
    last_hr,        \* self.last_hr
    last_rri,       \* self.last_rri, in 1/128 ms
    last_acc,       \* self.last_acc, <<x, y, z>>
    has_last_ecg,   \* hasattr(self, 'last_ecg')
    last_ecg,       \* self.last_ecg (0 while the attribute does not exist)
    \* ---- what the last handler run did (observation, not program state)
    notif,          \* [chan, data] of the last notification, chan "none" before
    pre,            \* the channel state when that handler started
    pushed,         \* the calls of outlet.push_sample it made, in order
    exc,            \* how it ended: "none", "IndexError" or "struct.error"
    busy,           \* it reached update_busy() (which defers to the GUI thread)
    \* ---- what the session has decoded since connect_to_device
    hrSeen,         \* a heart-rate notification was processed
    accSeen,        \* a complete 6-byte ACC group was decoded
    ecgSeen,        \* a complete 3-byte ECG sample was decoded
    ecgLast,        \* the last of these samples (0 before the first)
    \* ---- the session
    main,           \* GUI thread: "ui", "in_stop" (between lines 250 and 252), "exited"
    app,            \* "running", or "stopped" once App.stop() was called
    main_exc,       \* exception raised on the GUI thread, or "none"
    stop_event,     \* self.stop_event is set
    loop,           \* self.loop: "none", "running", "stopping" (stop() called), "stopped"
    stepped,        \* the task has run in the loop's last iteration after stop()
    pc,             \* async_connect: the await it is suspended at, "idle", "done"
    conn,           \* the BleakClient is connected
    subs,           \* the characteristics start_notify has subscribed
    failed,         \* the await of async_connect that raised, or "none"
    caught,         \* the except clause of async_connect ran
    thread_exc,     \* exception that ended the connect thread, or "none"
    ops,            \* the awaits of this session that have completed: [op, ok]
    stopAt,         \* pc when stop_event.set() ran, "none" before
    subsAtClose     \* subscriptions that were active whenever the link was closed

vars == <<has_outlet, last_hr, last_rri, last_acc, has_last_ecg, last_ecg,
          notif, pre, pushed, exc, busy, hrSeen, accSeen, ecgSeen, ecgLast,
          main, app, main_exc, stop_event, loop, stepped, pc, conn, subs,
          failed, caught, thread_exc, ops, stopAt, subsAtClose>>

\* the decoders' part of the state, and the session's
dvars == <<has_outlet, last_hr, last_rri, last_acc, has_last_ecg, last_ecg,
           notif, pre, pushed, exc, busy, hrSeen, accSeen, ecgSeen, ecgLast>>
svars == <<main, app, main_exc, stop_event, loop, stepped, pc, conn, subs,
           failed, caught, thread_exc, ops, stopAt, subsAtClose>>

-----------------------------------------------------------------------------
(* Bounds of the inputs *)

\* complete ECG samples in one frame
MaxEcgSamples == 2
\* complete ACC groups in one frame
MaxAccGroups == 2
\* complete RR values in one heart-rate record
MaxRr == 2

-----------------------------------------------------------------------------
(* Python primitives *)

Min(a, b) == IF a < b THEN a ELSE b

\* data[a:b] on a 0-based sequence, the bounds clamped as Python does
Slice(data, a, b) == SubSeq(data, Min(a, Len(data)) + 1, Min(b, Len(data)))

RECURSIVE Pow256(_)
Pow256(n) == IF n = 0 THEN 1 ELSE 256 * Pow256(n - 1)

\* int.from_bytes(bs, "little"): 0 for the empty slice
RECURSIVE from_bytes(_)
from_bytes(bs) == IF bs = <<>> THEN 0 ELSE Head(bs) + 256 * from_bytes(Tail(bs))

\* int.from_bytes(bs, "little", signed=True): two's complement on Len(bs) bytes
from_bytes_signed(bs) ==
    LET u == from_bytes(bs)
    IN  IF bs # <<>> /\ 2 * u >= Pow256(Len(bs)) THEN u - Pow256(Len(bs)) ELSE u

\* mutant of unpack_ok: a partial group is unpacked too
unpack_ok_partial(payload, off) == Len(payload) - off >= 1

\* struct.unpack_from("<hhh", payload, off) needs 6 bytes from off
unpack_ok(payload, off) == Len(payload) - off >= 6

\* mutant of unpack_from: "<HHH", the three values read unsigned
unpack_from_unsigned(payload, off) ==
    << from_bytes(Slice(payload, off, off + 2)),
       from_bytes(Slice(payload, off + 2, off + 4)),
       from_bytes(Slice(payload, off + 4, off + 6)) >>

unpack_from(payload, off) ==
    << from_bytes_signed(Slice(payload, off, off + 2)),
       from_bytes_signed(Slice(payload, off + 2, off + 4)),
       from_bytes_signed(Slice(payload, off + 4, off + 6)) >>

-----------------------------------------------------------------------------
(* The handlers work on a record s of the object's fields:                 *)
(*   last_hr, last_rri, last_acc, has_last_ecg, last_ecg, and sink, the    *)
(*   sequence of samples handed to outlet.push_sample so far in this run,  *)
(*   each with the channel state at that moment.                           *)

Fields(s) == [last_hr |-> s.last_hr, last_rri |-> s.last_rri,
              last_acc |-> s.last_acc, has_last_ecg |-> s.has_last_ecg,
              last_ecg |-> s.last_ecg]

\* mutant of push: "self.last_ecg = ecg" without the test "ecg != 0.0"
push_always(s, ecg) ==
    LET s1  == [s EXCEPT !.has_last_ecg = TRUE, !.last_ecg = ecg]
        vec == <<ecg, s1.last_hr, s1.last_rri,
                 s1.last_acc[1], s1.last_acc[2], s1.last_acc[3]>>
    IN  [s1 EXCEPT !.sink = Append(@, [vec |-> vec, at |-> Fields(s1)])]

\* mutant of push: HR and RRI change places in the vector
push_swapped(s, ecg) ==
    LET s1  == IF ecg # 0
               THEN [s EXCEPT !.has_last_ecg = TRUE, !.last_ecg = ecg]
               ELSE s
        vec == <<ecg, s1.last_rri, s1.last_hr,
                 s1.last_acc[1], s1.last_acc[2], s1.last_acc[3]>>
    IN  [s1 EXCEPT !.sink = Append(@, [vec |-> vec, at |-> Fields(s1)])]

\* push(self, ecg)
push(s, ecg) ==
    LET s1  == IF ecg # 0
               THEN [s EXCEPT !.has_last_ecg = TRUE, !.last_ecg = ecg]
               ELSE s
        vec == <<ecg, s1.last_hr, s1.last_rri,
                 s1.last_acc[1], s1.last_acc[2], s1.last_acc[3]>>
    IN  [s1 EXCEPT !.sink = Append(@, [vec |-> vec, at |-> Fields(s1)])]

\* "if hasattr(self, 'last_ecg'): self.push(self.last_ecg) else: self.push(0.0)"
push_last(s) == push(s, IF s.has_last_ecg THEN s.last_ecg ELSE 0)

\* for off in range(0, len(payload), 3): ecg = from_bytes(...); push(ecg)
RECURSIVE ecg_loop(_, _, _)
ecg_loop(s, payload, off) ==
    IF off >= Len(payload) THEN s
    ELSE ecg_loop(push(s, from_bytes_signed(Slice(payload, off, off + 3))),
                  payload, off + 3)

\* for off in range(0, len(payload), 6): last_acc = unpack_from(...); push
\* the result is [s, exc]: unpack_from raises when fewer than 6 bytes are left
RECURSIVE acc_loop(_, _, _)
acc_loop(s, payload, off) ==
    IF off >= Len(payload) THEN [s |-> s, exc |-> "none"]
    ELSE IF ~unpack_ok(payload, off) THEN [s |-> s, exc |-> "struct.error"]
    ELSE acc_loop(push_last([s EXCEPT !.last_acc = unpack_from(payload, off)]),
                  payload, off + 6)

\* mutant of pmd_data_conv: "else" for "elif hdr == 0x01"
pmd_data_conv_else(s, data) ==
    IF Len(data) = 0 THEN [s |-> s, exc |-> "IndexError", busy |-> FALSE]
    ELSE LET hdr == data[1]
             payload == Slice(data, 10, Len(data))
         IN  IF hdr = 0
             THEN [s |-> ecg_loop(s, payload, 0), exc |-> "none", busy |-> TRUE]
             ELSE LET r == acc_loop(s, payload, 0)
                  IN  [s |-> r.s, exc |-> r.exc, busy |-> r.exc = "none"]

\* pmd_data_conv(self, _sender, data); busy: the call of update_busy() was reached
pmd_data_conv(s, data) ==
    IF Len(data) = 0 THEN [s |-> s, exc |-> "IndexError", busy |-> FALSE]
    ELSE LET hdr == data[1]
             payload == Slice(data, 10, Len(data))
         IN  IF hdr = 0
             THEN [s |-> ecg_loop(s, payload, 0), exc |-> "none", busy |-> TRUE]
             ELSE IF hdr = 1
             THEN LET r == acc_loop(s, payload, 0)
                  IN  [s |-> r.s, exc |-> r.exc, busy |-> r.exc = "none"]
             ELSE [s |-> s, exc |-> "none", busy |-> TRUE]

\* mutant of rr_more: "while idx < len(data)"
rr_more_one(data, idx) == idx < Len(data)

\* "while idx + 1 < len(data)"
rr_more(data, idx) == idx + 1 < Len(data)

\* the loop body: last_rri = from_bytes(data[idx:idx+2]) / 1024.0 * 1000; push
RECURSIVE rr_loop(_, _, _)
rr_loop(s, data, idx) ==
    IF rr_more(data, idx)
    THEN rr_loop(push_last([s EXCEPT !.last_rri =
                                from_bytes(Slice(data, idx, idx + 2)) * 125]),
                 data, idx + 2)
    ELSE s

\* mutant of hrm_conv: the width of the HR field taken from flags bit 4
hrm_conv_bit4(s, data) ==
    IF Len(data) = 0 THEN [s |-> s, exc |-> "IndexError"]
    ELSE LET flags == data[1]
             rr    == (flags \div 16) % 2 = 1
             wide  == rr
         IN  IF ~wide /\ Len(data) < 2
             THEN [s |-> s, exc |-> "IndexError"]
             ELSE LET hr  == IF wide THEN from_bytes(Slice(data, 1, 3))
                                     ELSE data[2]
                      idx == 1 + (IF wide THEN 2 ELSE 1)
                      s1  == push_last([s EXCEPT !.last_hr = hr])
                  IN  [s |-> IF rr THEN rr_loop(s1, data, idx) ELSE s1,
                       exc |-> "none"]

\* mutant of hrm_conv: the HR tick is pushed before last_hr is assigned
hrm_conv_late(s, data) ==
    IF Len(data) = 0 THEN [s |-> s, exc |-> "IndexError"]
    ELSE LET flags == data[1]
             wide  == flags % 2 = 1
             rr    == (flags \div 16) % 2 = 1
         IN  IF ~wide /\ Len(data) < 2
             THEN [s |-> s, exc |-> "IndexError"]
             ELSE LET hr  == IF wide THEN from_bytes(Slice(data, 1, 3))
                                     ELSE data[2]
                      idx == 1 + (IF wide THEN 2 ELSE 1)
                      s1  == [push_last(s) EXCEPT !.last_hr = hr]
                  IN  [s |-> IF rr THEN rr_loop(s1, data, idx) ELSE s1,
                       exc |-> "none"]

\* hrm_conv(self, _sender, data)
hrm_conv(s, data) ==
    IF Len(data) = 0 THEN [s |-> s, exc |-> "IndexError"]
    ELSE LET flags == data[1]
             wide  == flags % 2 = 1
             rr    == (flags \div 16) % 2 = 1
         IN  IF ~wide /\ Len(data) < 2
             THEN [s |-> s, exc |-> "IndexError"]
             ELSE LET hr  == IF wide THEN from_bytes(Slice(data, 1, 3))
                                     ELSE data[2]
                      idx == 1 + (IF wide THEN 2 ELSE 1)
                      s1  == push_last([s EXCEPT !.last_hr = hr])
                  IN  [s |-> IF rr THEN rr_loop(s1, data, idx) ELSE s1,
                       exc |-> "none"]

-----------------------------------------------------------------------------
(* Notification payloads the transport may deliver *)

\* the 9 bytes between the type tag and the sample region
Meta == <<11, 12, 13, 14, 15, 16, 17, 18, 19>>

\* ECG samples 300, 0, -8388607; a frame holds consecutive members of the cycle
EcgSampleBytes == << <<44, 1, 0>>, <<0, 0, 0>>, <<1, 0, 128>> >>
EcgTails == { <<>>, <<7>>, <<0, 128>> }
\* ACC groups (1, 2, 3) and (-1, -32768, 32767)
AccGroupBytes == << <<1, 0, 2, 0, 3, 0>>, <<255, 255, 0, 128, 255, 127>> >>
AccTails == { <<>>, <<1, 0, 2, 0, 3>> }
\* RR values raw 10 and raw 1024
RrBytes == << <<10, 0>>, <<0, 4>> >>
RrTails == { <<>>, <<9>> }
\* bit 0: 16-bit HR; bit 4: RR values present; bits 1, 2: sensor contact
Flags == { 0, 1, 16, 23 }

RECURSIVE Flatten(_)
Flatten(ss) == IF ss = <<>> THEN <<>> ELSE Head(ss) \o Flatten(Tail(ss))

\* k consecutive members of the cycle, from its member number st
Take(cycle, st, k) == [i \in 1..k |-> cycle[((st + i - 2) % Len(cycle)) + 1]]

\* at most n consecutive members of the cycle, followed by a tail of T
Regions(cycle, n, T) ==
    { Flatten(Take(cycle, st, k)) \o t : st \in 1..Len(cycle), k \in 0..n, t \in T }

EcgFrames == { <<0>> \o Meta \o r : r \in Regions(EcgSampleBytes, MaxEcgSamples, EcgTails) }
AccFrames == { <<1>> \o Meta \o r : r \in Regions(AccGroupBytes, MaxAccGroups, AccTails) }
OtherFrames == { <<2>> \o Meta, <<255>> \o Meta \o <<1, 0, 2, 0, 3, 0>>, <<2, 1>>,
                 <<0>>, <<1, 11, 12>>, <<>> }
PmdPayloads == EcgFrames \cup AccFrames \cup OtherFrames

\* the HR field: one byte (60) or two (300), by flags bit 0
HrField(flags) == IF flags % 2 = 1 THEN <<44, 1>> ELSE <<60>>
HrRecords == { <<f>> \o HrField(f) \o r : f \in Flags, r \in Regions(RrBytes, MaxRr, RrTails) }
\* records that end inside the HR field, and the example of the specification
HrShort == { <<0>>, <<16>>, <<1>>, <<1, 60>>, <<>> }
HrmPayloads == HrRecords \cup HrShort \cup { <<16, 60, 10, 0>> }

-----------------------------------------------------------------------------
(* The formats as their documents give them, independent of the handlers *)

S16(lo, hi) == IF lo + 256 * hi >= 32768 THEN lo + 256 * hi - 65536 ELSE lo + 256 * hi
S24(b0, b1, b2) ==
    LET u == b0 + 256 * b1 + 65536 * b2
    IN  IF u >= 8388608 THEN u - 16777216 ELSE u

\* the last complete 3-byte sample of an ECG frame with at least one
LastEcgSample(data) ==
    LET n == (Len(data) - 10) \div 3
    IN  S24(data[10 + 3*n - 2], data[10 + 3*n - 1], data[10 + 3*n])

-----------------------------------------------------------------------------
(* State machine *)

Self == [last_hr |-> last_hr, last_rri |-> last_rri, last_acc |-> last_acc,
         has_last_ecg |-> has_last_ecg, last_ecg |-> last_ecg, sink |-> <<>>]

\* after build(): no outlet, no channel state, no thread, stop_event clear
Init ==
    /\ main = "ui" /\ app = "running" /\ main_exc = "none"
    /\ stop_event = FALSE /\ loop = "none" /\ stepped = FALSE
    /\ pc = "idle" /\ conn = FALSE /\ subs = {}
    /\ failed = "none" /\ caught = FALSE /\ thread_exc = "none"
    /\ ops = <<>> /\ stopAt = "none" /\ subsAtClose = {}
    /\ has_outlet = FALSE
    /\ last_hr = 0 /\ last_rri = 0 /\ last_acc = <<0, 0, 0>>
    /\ has_last_ecg = FALSE /\ last_ecg = 0
    /\ notif = [chan |-> "none", data |-> <<>>]
    /\ pre = Fields(Self)
    /\ pushed = <<>>
    /\ exc = "none" /\ busy = FALSE
    /\ hrSeen = FALSE /\ accSeen = FALSE /\ ecgSeen = FALSE /\ ecgLast = 0

\* connect_to_device, lines 149-158: a new outlet; last_hr, last_rri, last_acc
\* are reset, last_ecg is not touched
reset_channels ==
    /\ has_outlet' = TRUE
    /\ last_hr' = 0 /\ last_rri' = 0 /\ last_acc' = <<0, 0, 0>>
    /\ hrSeen' = FALSE /\ accSeen' = FALSE /\ ecgSeen' = FALSE /\ ecgLast' = 0
    /\ notif' = [chan |-> "none", data |-> <<>>]
    /\ pre' = [Fields(Self) EXCEPT !.last_hr = 0, !.last_rri = 0,
                                   !.last_acc = <<0, 0, 0>>]
    /\ pushed' = <<>>
    /\ exc' = "none" /\ busy' = FALSE
    /\ UNCHANGED <<has_last_ecg, last_ecg>>

Store(s) ==
    /\ last_hr' = s.last_hr /\ last_rri' = s.last_rri /\ last_acc' = s.last_acc
    /\ has_last_ecg' = s.has_last_ecg /\ last_ecg' = s.last_ecg
    /\ pushed' = s.sink
    /\ pre' = Fields(Self)

\* a notification of the combined-data characteristic runs pmd_data_conv
PmdDeliver(payloads) ==
    /\ \E data \in payloads :
         LET r == pmd_data_conv(Self, data)
             L == Len(Slice(data, 10, Len(data)))
         IN  /\ Store(r.s)
             /\ exc' = r.exc
             /\ busy' = r.busy
             /\ notif' = [chan |-> "pmd", data |-> data]
             /\ ecgSeen' = (ecgSeen \/ (data # <<>> /\ data[1] = 0 /\ L >= 3))
             /\ ecgLast' = (IF data # <<>> /\ data[1] = 0 /\ L >= 3
                            THEN LastEcgSample(data) ELSE ecgLast)
             /\ accSeen' = (accSeen \/ (data # <<>> /\ data[1] = 1 /\ L >= 6))
             /\ UNCHANGED <<has_outlet, hrSeen>>

\* a notification of the heart-rate characteristic runs hrm_conv
HrmDeliver(payloads) ==
    /\ \E data \in payloads :
         LET r == hrm_conv(Self, data)
         IN  /\ Store(r.s)
             /\ exc' = r.exc /\ busy' = FALSE
             /\ notif' = [chan |-> "hrm", data |-> data]
             /\ hrSeen' = TRUE
             /\ UNCHANGED <<has_outlet, accSeen, ecgSeen, ecgLast>>

\* a new session, and the notifications of the sessions so far
NewSession == reset_channels /\ UNCHANGED svars
PmdNotify == has_outlet /\ PmdDeliver(PmdPayloads) /\ UNCHANGED svars
HrmNotify == has_outlet /\ HrmDeliver(HrmPayloads) /\ UNCHANGED svars

Next == NewSession \/ PmdNotify \/ HrmNotify

Spec == Init /\ [][Next]_vars

-----------------------------------------------------------------------------
(* The session: async_connect await by await, stop_scanning statement by   *)
(* statement, the end of run_until_complete                                *)

\* the awaits of async_connect that talk to the sensor: "connect" is
\* BleakClient.__aenter__, "read" .. "sub_hrm" the handshake of lines 173-179,
\* "unsub_pmd" and "unsub_hrm" lines 182-183
Handshake == <<"connect", "read", "write_ecg", "write_acc", "sub_pmd", "sub_hrm">>
Awaits == {"connect", "read", "write_ecg", "write_acc", "sub_pmd", "sub_hrm",
           "unsub_pmd", "unsub_hrm"}

next_op_early_sub(op) ==
    CASE op = "connect"   -> "read"
      [] op = "read"      -> "write_ecg"
      [] op = "write_ecg" -> "sub_pmd"
      [] op = "sub_pmd"   -> "write_acc"
      [] op = "write_acc" -> "sub_hrm"
      [] op = "sub_hrm"   -> "wait"
      [] op = "wait"      -> "unsub_pmd"
      [] op = "unsub_pmd" -> "unsub_hrm"
      [] op = "unsub_hrm" -> "aexit"
      [] OTHER            -> "done"

\* the statement that follows a statement of the body that returned; "wait"
\* is stop_event.wait(), "aexit" the disconnect of BleakClient.__aexit__
next_op(op) ==
    CASE op = "connect"   -> "read"
      [] op = "read"      -> "write_ecg"
      [] op = "write_ecg" -> "write_acc"
      [] op = "write_acc" -> "sub_pmd"
      [] op = "sub_pmd"   -> "sub_hrm"
      [] op = "sub_hrm"   -> "wait"
      [] op = "wait"      -> "unsub_pmd"
      [] op = "unsub_pmd" -> "unsub_hrm"
      [] op = "unsub_hrm" -> "aexit"
      [] OTHER            -> "done"

raises_not_hrm(op, ok) == ~ok /\ op # "sub_hrm"

\* an await that fails raises into the body: no statement of the body has a
\* try of its own
raises(op, ok) == ~ok

on_raise_leak(connected) == "done"

\* an exception leaves the async with block: __aexit__ disconnects if
\* __aenter__ had connected, then the except clause of line 185 prints
on_raise(connected) == IF connected THEN "aexit" ELSE "done"

\* start_notify / stop_notify on the set of subscribed characteristics
subs_after(op, s) ==
    CASE op = "sub_pmd"   -> s \cup {"pmd"}
      [] op = "sub_hrm"   -> s \cup {"hrm"}
      [] op = "unsub_pmd" -> s \ {"pmd"}
      [] op = "unsub_hrm" -> s \ {"hrm"}
      [] OTHER            -> s

\* payloads of the notifications of a session: one ECG sample, one ACC
\* group, one heart-rate record with one RR interval
SessionPmdPayloads == { <<0>> \o Meta \o <<44, 1, 0>>,
                        <<1>> \o Meta \o <<1, 0, 2, 0, 3, 0>> }
SessionHrmPayloads == { <<16, 60, 0, 4>> }

\* the loop runs the task: it is running, or stop() was called on it and the
\* iteration that ends it has not run the task yet
CanStep == loop = "running" \/ (loop = "stopping" /\ ~stepped)

\* connect_to_device and the start of its thread, up to the first await of
\* async_connect (the connect of __aenter__)
connect_to_device ==
    /\ main = "ui" /\ app = "running"
    /\ pc \in {"idle", "done"}
    /\ reset_channels
    /\ pc' = "connect" /\ loop' = "running" /\ stepped' = FALSE
    /\ failed' = "none" /\ caught' = FALSE /\ ops' = <<>>
    /\ UNCHANGED <<main, app, main_exc, stop_event, conn, subs, thread_exc,
                   stopAt, subsAtClose>>

\* an await of the body completes, with success or with an exception; a
\* stop_event.wait() reached with the event already set returns at once;
\* when the coroutine returns, run_until_complete returns and the thread ends
async_connect_step ==
    /\ pc \in Awaits /\ CanStep
    /\ \E ok \in BOOLEAN :
         LET r  == raises(pc, ok)
             c  == IF pc = "connect" THEN ok ELSE conn
             p  == IF r THEN on_raise(c) ELSE next_op(pc)
             p2 == IF p = "wait" /\ stop_event THEN next_op("wait") ELSE p
         IN  /\ conn' = c
             /\ subs' = (IF ok THEN subs_after(pc, subs) ELSE subs)
             /\ failed' = (IF r THEN pc ELSE failed)
             /\ caught' = (caught \/ (r /\ p = "done"))
             /\ ops' = Append(ops, [op |-> pc, ok |-> ok])
             /\ pc' = p2
             /\ loop' = (IF p2 = "done" THEN "stopped" ELSE loop)
    /\ stepped' = (loop = "stopping")
    /\ UNCHANGED <<main, app, main_exc, stop_event, thread_exc, stopAt,
                   subsAtClose>>
    /\ UNCHANGED dvars

\* line 181: the task wakes from stop_event.wait() and issues the first
\* stop_notify
async_connect_wait ==
    /\ pc = "wait" /\ stop_event /\ CanStep
    /\ pc' = next_op("wait")
    /\ stepped' = (loop = "stopping")
    /\ UNCHANGED <<main, app, main_exc, stop_event, loop, conn, subs, failed,
                   caught, thread_exc, ops, stopAt, subsAtClose>>
    /\ UNCHANGED dvars

\* BleakClient.__aexit__: the disconnect completes, whatever is still
\* subscribed; an exception of the body then reaches the except clause
async_connect_aexit ==
    /\ pc = "aexit" /\ CanStep
    /\ conn' = FALSE
    /\ subsAtClose' = subsAtClose \cup subs
    /\ subs' = {}
    /\ caught' = (failed # "none")
    /\ ops' = Append(ops, [op |-> "aexit", ok |-> TRUE])
    /\ pc' = "done" /\ loop' = "stopped"
    /\ stepped' = (loop = "stopping")
    /\ UNCHANGED <<main, app, main_exc, stop_event, failed, thread_exc, stopAt>>
    /\ UNCHANGED dvars

\* notifications reach the handlers of the characteristics subscribed, as
\* callbacks of the session's loop
SessionPmdNotify ==
    /\ conn /\ "pmd" \in subs /\ loop \in {"running", "stopping"}
    /\ PmdDeliver(SessionPmdPayloads)
    /\ UNCHANGED svars

SessionHrmNotify ==
    /\ conn /\ "hrm" \in subs /\ loop \in {"running", "stopping"}
    /\ HrmDeliver(SessionHrmPayloads)
    /\ UNCHANGED svars

\* stop_scanning, line 250: the Cancel button sets the event
stop_scanning_set ==
    /\ main = "ui" /\ app = "running"
    /\ stop_event' = TRUE
    /\ stopAt' = pc
    /\ main' = "in_stop"
    /\ UNCHANGED <<app, main_exc, loop, stepped, pc, conn, subs, failed,
                   caught, thread_exc, ops, subsAtClose>>
    /\ UNCHANGED dvars

\* stop_scanning, lines 251-253: asyncio.sleep(5) only creates a coroutine
\* object; self.loop.stop() makes the session's loop leave run_forever at the
\* end of its iteration (self.loop does not exist before the first session);
\* then the application is stopped
stop_scanning_stop ==
    /\ main = "in_stop"
    /\ IF loop = "none"
       THEN main_exc' = "AttributeError" /\ loop' = loop
       ELSE main_exc' = main_exc
            /\ loop' = (IF loop = "running" THEN "stopping" ELSE loop)
    /\ stepped' = FALSE
    /\ app' = "stopped" /\ main' = "exited"
    /\ UNCHANGED <<stop_event, pc, conn, subs, failed, caught, thread_exc,
                   ops, stopAt, subsAtClose>>
    /\ UNCHANGED dvars

\* line 167: the stopped loop leaves run_forever with async_connect not done;
\* run_until_complete raises RuntimeError and the thread ends with it
run_until_complete_stopped ==
    /\ loop = "stopping"
    /\ loop' = "stopped"
    /\ thread_exc' = "RuntimeError"
    /\ UNCHANGED <<main, app, main_exc, stop_event, stepped, pc, conn, subs,
                   failed, caught, ops, stopAt, subsAtClose>>
    /\ UNCHANGED dvars

SessionNext ==
    \/ connect_to_device
    \/ async_connect_step
    \/ async_connect_wait
    \/ async_connect_aexit
    \/ SessionPmdNotify
    \/ SessionHrmNotify
    \/ stop_scanning_set
    \/ stop_scanning_stop
    \/ run_until_complete_stopped

SessionSpec == Init /\ [][SessionNext]_vars

-----------------------------------------------------------------------------
(* Vocabulary of the properties: the last notification as the format       *)
(* documents describe it, decoded independently of the handlers            *)

Data == notif.data
IsPmd == notif.chan = "pmd" /\ Data # <<>>
IsHrm == notif.chan = "hrm" /\ Data # <<>>
Tag == Data[1]
\* length of the sample region: what follows the tag and the 9 metadata bytes
RegionLen == IF Len(Data) > 10 THEN Len(Data) - 10 ELSE 0
\* byte j (from 1) of the sample region
RegionByte(j) == Data[10 + j]

\* the i-th complete ECG sample and ACC group of the region
EcgSample(i) == S24(RegionByte(3*i - 2), RegionByte(3*i - 1), RegionByte(3*i))
AccGroup(i) == << S16(RegionByte(6*i - 5), RegionByte(6*i - 4)),
                  S16(RegionByte(6*i - 3), RegionByte(6*i - 2)),
                  S16(RegionByte(6*i - 1), RegionByte(6*i)) >>

\* the channel state now, and just before the i-th emission of the last run
Now == Fields(Self)
Before(i) == IF i = 1 THEN pre ELSE pushed[i - 1].at
AccOf(v) == <<v[4], v[5], v[6]>>
EcgCarried(c) == IF c.has_last_ecg THEN c.last_ecg ELSE 0

-----------------------------------------------------------------------------
(* Properties *)

\* C1: an ECG frame (tag 0x00) whose sample region has length L makes exactly
\* floor(L/3) emissions; a tail of 1 or 2 bytes makes no emission and leaves
\* the channel state as the last complete sample left it.
C1_EcgEmitsFloor ==
    (IsPmd /\ Tag = 0) =>
        /\ Len(pushed) = RegionLen \div 3
        /\ Now = (IF pushed = <<>> THEN pre ELSE pushed[Len(pushed)].at)
        /\ \A i \in 1..Len(pushed) : pushed[i].vec[1] = EcgSample(i)

\* C2: an ACC frame (tag 0x01) whose sample region has length L makes exactly
\* floor(L/6) emissions, the i-th carrying the i-th complete (X,Y,Z) group; an
\* incomplete last group makes no emission and the cached triple is the last
\* complete group (the triple cached before the frame if there is none).
C2_AccEmitsFloor ==
    (IsPmd /\ Tag = 1) =>
        /\ Len(pushed) = RegionLen \div 6
        /\ \A i \in 1..Len(pushed) : AccOf(pushed[i].vec) = AccGroup(i)
        /\ last_acc = (IF RegionLen \div 6 = 0 THEN pre.last_acc
                       ELSE AccGroup(RegionLen \div 6))

\* C2 witness: a frame of two complete groups and a 5-byte tail was processed
C2_Witness ==
    /\ IsPmd /\ Tag = 1 /\ RegionLen = 17 /\ Len(pushed) = 2
    /\ pushed[1].vec[4] # pushed[2].vec[4]

\* C3: a handler given a non-empty payload, truncated or not, ends without an
\* exception.
C3_NoError == (IsPmd \/ IsHrm) => exc = "none"

\* C4: a combined-data notification whose tag is neither 0x00 nor 0x01 makes
\* no emission, changes no field of the channel state and raises nothing.
C4_UnknownTagIgnored ==
    (IsPmd /\ Tag \notin {0, 1}) =>
        pushed = <<>> /\ Now = pre /\ exc = "none"

\* C4 witness: an unknown-tag frame with a sample region arrived while every
\* channel held a decoded value
C4_Witness ==
    /\ IsPmd /\ Tag \notin {0, 1} /\ RegionLen >= 6
    /\ pre.last_hr # 0 /\ pre.last_rri # 0 /\ pre.last_acc # <<0, 0, 0>>
    /\ pre.has_last_ecg

\* C5: a heart-rate record that holds its HR field leaves the cached HR equal
\* to byte 1 when flags bit 0 is clear, and to byte 1 + 256 * byte 2 when it is
\* set; with bit 4 set, the first RR value is read from bytes 2..3 in the first
\* case and from bytes 3..4 in the second.
C5_HrWidth ==
    IsHrm =>
        LET wide == Data[1] % 2 = 1
            rr   == (Data[1] \div 16) % 2 = 1
        IN  /\ (~wide /\ Len(Data) >= 2) => last_hr = Data[2]
            /\ (wide /\ Len(Data) >= 3) => last_hr = Data[2] + 256 * Data[3]
            /\ (~wide /\ rr /\ Len(Data) >= 4) =>
                   /\ Len(pushed) >= 2
                   /\ pushed[2].vec[3] = (Data[3] + 256 * Data[4]) * 125
            /\ (wide /\ rr /\ Len(Data) >= 5) =>
                   /\ Len(pushed) >= 2
                   /\ pushed[2].vec[3] = (Data[4] + 256 * Data[5]) * 125

\* C5 witness: a record with a 16-bit HR above 255 and an RR value was decoded
C5_Witness ==
    /\ IsHrm /\ Data[1] % 2 = 1 /\ (Data[1] \div 16) % 2 = 1 /\ Len(Data) >= 5
    /\ last_hr > 255 /\ Len(pushed) >= 2

\* C6: a heart-rate record that holds its HR field makes exactly 1 emission
\* when flags bit 4 is clear and exactly 1 + floor(r/2) when it is set, r being
\* the number of bytes after the HR field; the first emission carries the new
\* HR and the RRI cached before, the k-th after it the k-th RR value as RRI.
\* Flags 0x10, HR byte 0x3C, RR raw 0x000A: HR 60, RRI 10*125/128 ms, 2 emissions.
C6_HrEmissions ==
    IsHrm =>
        LET wide == Data[1] % 2 = 1
            rr   == (Data[1] \div 16) % 2 = 1
            w    == IF wide THEN 2 ELSE 1
            r    == Len(Data) - 1 - w
            hr   == IF wide THEN Data[2] + 256 * Data[3] ELSE Data[2]
        IN  /\ r >= 0 =>
                /\ Len(pushed) = (IF rr THEN 1 + r \div 2 ELSE 1)
                /\ pushed[1].vec[2] = hr
                /\ pushed[1].vec[3] = pre.last_rri
                /\ \A k \in 1..(Len(pushed) - 1) :
                       /\ pushed[k + 1].vec[3] =
                              (Data[w + 2*k] + 256 * Data[w + 2*k + 1]) * 125
                       /\ pushed[k + 1].vec[2] = hr
            /\ Data = <<16, 60, 10, 0>> =>
                /\ Len(pushed) = 2
                /\ pushed[1].vec[2] = 60
                /\ pushed[2].vec[3] = 1250

\* C6 witness: a record with two different RR values and an odd byte after
\* them was processed while an RRI was cached
C6_Witness ==
    /\ IsHrm /\ (Data[1] \div 16) % 2 = 1 /\ Len(pushed) = 3
    /\ Len(Data) - 1 - (IF Data[1] % 2 = 1 THEN 2 ELSE 1) = 5
    /\ pushed[2].vec[3] # pushed[3].vec[3]
    /\ pre.last_rri # 0

\* C7: every vector handed to the sink has 6 elements, [ECG, HR, RRI, AccX,
\* AccY, AccZ]; elements 2 to 6 are the cached hr, rri and acc triple at the
\* moment of the emission, and a non-zero element 1 is the ECG value cached by
\* that emission.
C7_VectorShape ==
    /\ \A i \in 1..Len(pushed) :
          LET e == pushed[i]
          IN  /\ Len(e.vec) = 6
              /\ e.vec[2] = e.at.last_hr
              /\ e.vec[3] = e.at.last_rri
              /\ AccOf(e.vec) = e.at.last_acc
              /\ e.vec[1] # 0 => (e.at.has_last_ecg /\ e.vec[1] = e.at.last_ecg)
    /\ pushed # <<>> => pushed[Len(pushed)].at = Now

\* C7 witness: a vector with six different non-zero elements was emitted
C7_Witness ==
    /\ pushed # <<>>
    /\ LET v == pushed[Len(pushed)].vec
       IN  Cardinality({v[j] : j \in 1..6} \cup {0}) = 7

\* C8: while the session has processed no heart-rate notification every
\* emitted vector has HR = 0 and RRI = 0; while it has decoded no ACC group,
\* AccX = AccY = AccZ = 0; while it has decoded no ECG sample, the ECG field of
\* a tick that is not driven by an ECG frame is 0; every element is a number.
C8_DefaultsBeforeFirstValue ==
    \A i \in 1..Len(pushed) :
        LET v == pushed[i].vec
        IN  /\ ~hrSeen => (v[2] = 0 /\ v[3] = 0)
            /\ ~accSeen => AccOf(v) = <<0, 0, 0>>
            /\ (~ecgSeen /\ ~(IsPmd /\ Tag = 0)) => v[1] = 0
            /\ \A j \in 1..6 : v[j] \in Int

\* C9: an ECG frame holding n complete 3-byte samples makes n emissions, the
\* i-th with ECG = the i-th sample (signed 24-bit little-endian) and with HR,
\* RRI, AccX, AccY, AccZ as cached before the frame.
C9_EcgFrame ==
    (IsPmd /\ Tag = 0) =>
        /\ Len(pushed) = RegionLen \div 3
        /\ \A i \in 1..Len(pushed) :
              LET v == pushed[i].vec
              IN  /\ v[1] = EcgSample(i)
                  /\ v[2] = pre.last_hr /\ v[3] = pre.last_rri
                  /\ AccOf(v) = pre.last_acc

\* C10: the emission driven by the i-th complete ACC group of a frame carries
\* that group (signed 16-bit little-endian) as AccX, AccY, AccZ, and the ECG,
\* HR and RRI cached before the group was decoded; the sample region
\* 01 00 02 00 03 00 gives exactly one emission, with Acc = (1, 2, 3).
C10_AccEmission ==
    (IsPmd /\ Tag = 1) =>
        /\ \A i \in 1..Len(pushed) :
              LET v == pushed[i].vec
              IN  /\ i <= RegionLen \div 6
                  /\ AccOf(v) = AccGroup(i)
                  /\ v[1] = EcgCarried(Before(i))
                  /\ v[2] = Before(i).last_hr
                  /\ v[3] = Before(i).last_rri
        /\ Data = <<1>> \o Meta \o <<1, 0, 2, 0, 3, 0>> =>
              /\ Len(pushed) = 1
              /\ AccOf(pushed[1].vec) = <<1, 2, 3>>

\* C10 witness: a frame with a group of negative values was processed while
\* ECG, HR and RRI held decoded values
C10_Witness ==
    /\ IsPmd /\ Tag = 1 /\ Len(pushed) = 2
    /\ pushed[2].vec[4] < 0 /\ pushed[2].vec[5] < 0
    /\ pre.has_last_ecg /\ pre.last_hr # 0 /\ pre.last_rri # 0

-----------------------------------------------------------------------------
(* Properties of the channel state *)

\* the HR value a heart-rate record holds (what is there of a cut HR field)
HrOf(d) == IF d[1] % 2 = 0 \/ Len(d) = 2 THEN d[2]
           ELSE IF Len(d) = 1 THEN 0 ELSE d[2] + 256 * d[3]
\* the number of complete RR values of a record, and the k-th of them
RrCount(d) ==
    LET r == Len(d) - 1 - (IF d[1] % 2 = 1 THEN 2 ELSE 1)
    IN  IF (d[1] \div 16) % 2 = 1 /\ r >= 2 THEN r \div 2 ELSE 0
RrOf(d, k) ==
    LET w == IF d[1] % 2 = 1 THEN 2 ELSE 1
    IN  (d[w + 2*k] + 256 * d[w + 2*k + 1]) * 125
\* the ECG values the last run emitted that are not 0
EcgWrites == { i \in 1..Len(pushed) : pushed[i].vec[1] # 0 }
Max(S) == CHOOSE m \in S : \A x \in S : x <= m

C15_EcgCarryForward ==
    (IsHrm \/ (IsPmd /\ Tag = 1)) =>
        \A i \in 1..Len(pushed) :
            pushed[i].vec[1] = (IF ecgSeen THEN ecgLast ELSE 0)

\* C16: right after connect_to_device all six channels are unknown / 0.
C16_FreshSession ==
    (has_outlet /\ notif.chan = "none") =>
        Now = [last_hr |-> 0, last_rri |-> 0, last_acc |-> <<0, 0, 0>>,
               has_last_ecg |-> FALSE, last_ecg |-> 0]

\* the values the transport can make the decoders decode
DecodedAcc == { << S16(g[1], g[2]), S16(g[3], g[4]), S16(g[5], g[6]) >> :
                g \in { AccGroupBytes[k] : k \in 1..Len(AccGroupBytes) } }
DecodedHr == { HrOf(d) : d \in { e \in HrmPayloads : Len(e) >= 2 } }
DecodedRri == { (g[1] + 256 * g[2]) * 125 :
                g \in { RrBytes[k] : k \in 1..Len(RrBytes) } }

\* C19: in whatever order the runs of the two handlers follow each other, no
\* emitted vector is torn: its acc triple is (0,0,0) or one decoded group in
\* full, its HR is 0 or a decoded HR, its RRI 0 or a decoded RR value, and
\* every vector a heart-rate notification emits carries the HR of that record.
C19_NoTornVector ==
    \A i \in 1..Len(pushed) :
        LET v == pushed[i].vec
        IN  /\ AccOf(v) \in {<<0, 0, 0>>} \cup DecodedAcc
            /\ v[2] \in {0} \cup DecodedHr
            /\ v[3] \in {0} \cup DecodedRri
            /\ IsHrm => v[2] = HrOf(Data)

\* C19 witness: a heart-rate record with a new HR was processed after an ACC
\* frame and another heart-rate record
C19_Witness ==
    /\ IsHrm /\ Len(pushed) >= 2
    /\ pre.last_hr # 0 /\ pre.last_hr # last_hr
    /\ pre.last_acc # <<0, 0, 0>> /\ pre.last_rri # 0

-----------------------------------------------------------------------------
(* Properties of the session (SessionSpec) *)

\* the state of the session in the words of the lifecycle: the thread has
\* ended ("Disconnected", or "Abandoned" if it left the link open), or the
\* place async_connect is at
SessionState ==
    IF pc \in {"idle", "done"} \/ loop = "stopped"
    THEN (IF conn THEN "Abandoned" ELSE "Disconnected")
    ELSE CASE pc = "connect" -> "Connecting"
           [] pc \in {"read", "write_ecg", "write_acc", "sub_pmd", "sub_hrm"}
                -> "Handshaking"
           [] pc = "wait" -> "StreamingActive"
           [] OTHER -> "Stopping"

\* the operations of this session that completed with success
Succeeded == { ops[i].op : i \in { j \in 1..Len(ops) : ops[j].ok } }
Attempted == { ops[i].op : i \in 1..Len(ops) }
AllOkBefore(i) == \A j \in 1..(i - 1) : ops[j].ok

\* C11: the connection is never closed while a subscription is still
\* active: whenever the link has been closed, nothing was subscribed.
C11_UnsubscribedAtClose ==
    subsAtClose = {}

\* C12: a failure of the connect, of the read, of a write or of a subscribe
\* leaves the body at once; when async_connect has returned after it, the
\* except clause has run, the link is closed with nothing subscribed, and the
\* thread has ended without an exception.  The thread ends with an exception
\* only where stop_scanning has stopped its loop.
C12_FailureCaught ==
    /\ failed # "none" => pc \in {"aexit", "done"}
    /\ (failed # "none" /\ pc = "done") =>
           /\ caught /\ ~conn /\ subs = {}
           /\ loop = "stopped" /\ thread_exc = "none"
           /\ SessionState = "Disconnected"
    /\ thread_exc # "none" => (stop_event /\ app = "stopped")
    /\ main_exc # "none" => pc = "idle"
C12_Witness ==
    /\ failed \in {"connect", "read", "write_ecg", "write_acc", "sub_pmd", "sub_hrm"}
    /\ pc = "done" /\ caught /\ app = "running"

\* exactly one of the two subscriptions succeeded and the other failed
PartialSubscription ==
    \E a, b \in {"sub_pmd", "sub_hrm"} :
        /\ a # b /\ a \in Succeeded
        /\ b \in Attempted \ Succeeded

\* C13 as stated: with exactly one subscription succeeded and the other
\* failed, the session is in StreamingActive (degraded mode).
C13_DegradedMode ==
    PartialSubscription => SessionState = "StreamingActive"

\* C13 amended: with exactly one subscription succeeded and the other
\* failed, the session is never in StreamingActive: the failure has left the
\* body, and once async_connect has returned the link is closed, nothing is
\* subscribed and the except clause has run.
C13_AbortsOnPartial ==
    PartialSubscription =>
        /\ SessionState # "StreamingActive"
        /\ failed = "sub_hrm" /\ "sub_pmd" \in Succeeded
        /\ pc \in {"aexit", "done"}
        /\ pc = "done" => (~conn /\ subs = {} /\ caught)
        /\ \A i \in 1..Len(ops) : ops[i].op \notin {"unsub_pmd", "unsub_hrm"}
C13_Witness ==
    PartialSubscription /\ pc = "done" /\ "pmd" \in subsAtClose

\* C17: the operations of a session are attempted in the order connect,
\* read, ECG write, ACC write, combined-data subscribe, heart-rate
\* subscribe, each only after all before it succeeded; StreamingActive is
\* entered only with all six succeeded and both subscriptions active.
C17_HandshakeOrder ==
    /\ \A i \in 1..Len(ops) :
           (i <= Len(Handshake) /\ AllOkBefore(i)) => ops[i].op = Handshake[i]
    /\ \A i \in 1..Len(Handshake) :
           pc = Handshake[i] =>
               /\ Len(ops) = i - 1
               /\ AllOkBefore(i)
    /\ \A i \in 1..Len(ops) :
           ops[i].op \in {"sub_pmd", "sub_hrm"} =>
               /\ AllOkBefore(i)
               /\ \E j, k, l \in 1..(i - 1) :
                      /\ j < k /\ k < l
                      /\ ops[j].op = "read" /\ ops[k].op = "write_ecg"
                      /\ ops[l].op = "write_acc"
    /\ SessionState = "StreamingActive" =>
           /\ Len(ops) = Len(Handshake)
           /\ \A i \in 1..Len(ops) : ops[i].ok /\ ops[i].op = Handshake[i]
           /\ subs = {"pmd", "hrm"} /\ conn
C17_Witness ==
    /\ SessionState = "StreamingActive"
    /\ Len(ops) = Len(Handshake)
    /\ pushed # <<>>

\* C18: once the stop signal was raised in StreamingActive and the session's
\* loop has been released, both channels were unsubscribed, in that order,
\* then the link was closed, and the thread ended without an exception.
C18_StopTearsDown ==
    (stopAt = "wait" /\ loop = "stopped") =>
        /\ Len(ops) = Len(Handshake) + 3
        /\ ops[Len(ops) - 2] = [op |-> "unsub_pmd", ok |-> TRUE]
        /\ ops[Len(ops) - 1] = [op |-> "unsub_hrm", ok |-> TRUE]
        /\ ops[Len(ops)] = [op |-> "aexit", ok |-> TRUE]
        /\ ~conn /\ subs = {} /\ thread_exc = "none"

=============================================================================
